---- MODULE Spec2Model ----
(***************************************************************************)
(* Model of the HGR agent solver: the model-guided beam search             *)
(* (beam_search), the solve pipeline (solve) and the deadline orchestrator *)
(* (solve_with_time), as implemented in src/eval.py (process based, with   *)
(* the heuristic fallback) and in src/app.py (func_timeout based, no       *)
(* fallback).  The variable prog selects which of the two programs a       *)
(* behaviour runs.                                                         *)
(*                                                                         *)
(* Units: probabilities are integers in units of 1e-6; log-scores are      *)
(* integers in units of 2^-20 nat.                                         *)
(***************************************************************************)
EXTENDS Integers, Sequences, FiniteSets, TLC

\* ---------------------------------------------------------------- bounds
MaxStep == 2
MaxBeam == 2

\* ------------------------------------------------------- program constants
\* EPSILON = 1e-5, in units of 1e-6
EPSILON == 10

\* ------------------------------------------------------------ Python values
\* Python None / an optional value
None == << >>
Some(v) == <<v>>

\* the value a Python function returns when it falls off its end
PyNone == [none |-> TRUE]

\* ------------------------------------------------------------ problem store
QIds == {"q1", "q2", "q3", "q4", "q5"}
diagram_logic_forms_json == {"q1", "q3", "q4"}
text_logic_forms_json == {"q1", "q2", "q4"}
error_ids == {"q4", "q5"}

\* the test of solve_with_time (eval.py 214) and of solve (app.py 167) under
\* which the default record is returned at once
IneligibleMut(q) ==
    q \notin diagram_logic_forms_json /\ q \notin text_logic_forms_json /\ q \in error_ids

Ineligible(q) ==
    q \notin diagram_logic_forms_json \/ q \notin text_logic_forms_json \/ q \in error_ids

\* ------------------------------------------------------------ result records
ResultFields == {"id", "target", "answer", "step_lst", "model_instance_eq_num",
                 "correctness", "time"}

\* res = {"id": q_id, "target": None, "answer": None, "step_lst": [], ...}
DefaultRes(i) ==
    [id |-> i, target |-> None, answer |-> None, step_lst |-> << >>,
     model_instance_eq_num |-> None, correctness |-> "no", time |-> None]

\* app.py writes {"id": id, ...}: the builtin function id, not the problem id
BuiltinId == "<built-in function id>"

\* beam_search_res = {"answer": None, "step_lst": [], "model_instance_eq_num": None}
EmptyBeamResMut == [answer |-> None, step_lst |-> <<0>>, model_instance_eq_num |-> None]

EmptyBeamRes == [answer |-> None, step_lst |-> << >>, model_instance_eq_num |-> None]

\* ------------------------------------------------------------ collaborators
\* check_transformed_answer(answer, candidate_value_list, gt_id):
\* (correctness, normalised answer)
Normalise(a) == IF a = "rawRight" THEN "choiceRight" ELSE "choiceWrong"
check_transformed_answer(a) == [correctness |-> (a = "rawRight"), answer |-> Normalise(a)]

\* solve_question(q_id): the records the heuristic strategy may return
HeuristicRecords(q) ==
    { [id |-> q, target |-> Some("target"), answer |-> a, step_lst |-> s,
       model_instance_eq_num |-> e, correctness |-> c, time |-> Some("elapsed")] :
        <<a, s, e, c>> \in { <<Some("choiceRight"), <<7>>, Some(4), "yes">>,
                             <<Some("choiceWrong"), <<7>>, Some(4), "no">>,
                             <<None, << >>, None, "no">> } }

\* theorem_pred: the ranked distributions the Scorer may return, each a
\* sequence of (theorem id, probability) by descending probability
ScorerOutcomes ==
    { << [th |-> 1, p |-> 500000], [th |-> 2, p |-> 500000], [th |-> 3, p |-> 0] >>,
      << [th |-> 3, p |-> 999990], [th |-> 1, p |-> 10], [th |-> 2, p |-> 0] >>,
      << [th |-> 2, p |-> 1000000], [th |-> 3, p |-> 0], [th |-> 1, p |-> 0] >> }

\* np.log on the probabilities above, in units of 2^-20 nat (log(0) = -inf
\* is represented by a value below every finite score of the model)
NpLog(p) ==
    CASE p = 1000000 -> 0
      [] p = 999990 -> -10
      [] p = 500000 -> -726817
      [] p = 10 -> -12072177
      [] p = 0 -> -1000000000

\* torch.Tensor(list) / .item(): a float64 score stored as float32 and read
\* back.  In units of 2^-20 a float32 of magnitude in [2^4, 2^5) is a
\* multiple of 2, in [2^5, 2^6) a multiple of 4; below 2^4 the spacing is
\* finer than the unit.  Round to nearest, ties to the even multiple.
Abs(x) == IF x < 0 THEN -x ELSE x
Ulp(x) == IF Abs(x) < 16777216 THEN 1 ELSE IF Abs(x) < 33554432 THEN 2 ELSE 4
RoundTo(x, u) ==
    LET lo == (x \div u) * u
        r == x - lo
    IN IF 2 * r < u THEN lo
       ELSE IF 2 * r > u THEN lo + u
       ELSE IF (lo \div u) % 2 = 0 THEN lo ELSE lo + u
F32(x) == RoundTo(x, Ulp(x))

\* TheoremRegistry: get_model(model_pool, model_id_map, theorem) followed by
\* now_hyp.solve_with_one_model(graph_model), on the clone h.  The outcome
\* is what the external matcher/solver does: "noop" (is_updated stays
\* False), "updated", or "answer" (updated, and the answer slot is filled
\* if it was empty).  A raised exception is handled by the caller.
\* "raise" is an exception before the clone is touched (get_model),
\* "raiseLate" one raised after solve_with_one_model has changed it.
ApplyOutcomes == {"raise", "raiseLate", "noop", "updated", "answerRight", "answerWrong"}

solve_with_one_model(h, theorem, outcome) ==
    IF outcome = "noop" THEN [h EXCEPT !.is_updated = FALSE]
    ELSE [h EXCEPT !.is_updated = TRUE,
                   !.reasoning_record = Append(@, theorem),
                   !.model_instance_eq_num = @ + 1,
                   !.answer = IF @ # None \/ outcome = "updated" THEN @
                              ELSE IF outcome = "answerRight" THEN Some("rawRight")
                              ELSE Some("rawWrong")]

\* get_graph_solver(q_id) followed by graph_solver.init_solve(): the initial
\* hypothesis, which may already carry an answer
InitialHypotheses ==
    { [answer |-> a, reasoning_record |-> << >>, model_instance_eq_num |-> 1,
       is_updated |-> FALSE] : a \in {None, Some("rawRight"), Some("rawWrong")} }

NoHypothesis == [answer |-> None, reasoning_record |-> << >>, model_instance_eq_num |-> 0,
                 is_updated |-> FALSE]

\* ---------------------------------------------------------------- state
VARIABLES
    prog,               \* "eval" (src/eval.py) or "app" (src/app.py)
    q_id,               \* the problem id given to solve_with_time
    max_step,           \* max_step of the solver
    beam_size,          \* beam_size of the solver
    opc,                \* solve_with_time: "start", "join_p", "join_f", "done"
    res,                \* solve_with_time: its local res; at "done" the value returned
    return_dict,        \* eval.py: the manager dict shared with the processes
    thread_ret,         \* app.py: the outcome of the thread func_timeout runs
    pStatus,            \* primary unit: "none", "running", "stored", "exited", "terminated"
    fStatus,            \* fallback process: same values
    spc,                \* position of the primary inside solve / beam_search
    sres,               \* solve: its local res
    graph_solver,       \* solve: the initial hypothesis
    t,                  \* beam_search locals
    hypotheses,
    hyp_steps,
    hyp_scores,
    beam_search_res,
    hyp_index,
    hyp_theorem,
    conti_hyp_scores,
    conti_hyp_steps,
    top_cand_hyp_pos,
    cand,               \* position of the loop over top_cand_hyp_pos
    new_hypotheses,
    new_hyp_scores,
    new_hyp_steps,
    scorerCalls,        \* history: number of theorem_pred calls
    fbStarts,           \* history: number of p_fallback.start() calls
    carried,            \* history: res as read after the primary (line 230)
    fbRecord,           \* history: the record solve_question returned
    events,             \* history: set of things that happened
    det                 \* repeated runs of beam_search with a fixed Scorer and Registry

inputVars == <<prog, q_id, max_step, beam_size>>
paramVars == <<inputVars, det>>
orchVars == <<opc, res, return_dict, thread_ret, fStatus, fbStarts, carried, fbRecord>>
solveVars == <<sres, graph_solver>>
frontierVars == <<t, hypotheses, hyp_steps, hyp_scores, beam_search_res>>
poolVars == <<hyp_index, hyp_theorem, conti_hyp_scores, conti_hyp_steps>>
applyVars == <<top_cand_hyp_pos, cand, new_hypotheses, new_hyp_scores, new_hyp_steps>>
beamVars == <<frontierVars, poolVars, applyVars>>
vars == <<paramVars, orchVars, pStatus, spc, solveVars, beamVars, scorerCalls, events>>

\* the locals of beam_search before the function is entered / after it returned
NoBeamLocals ==
    /\ t = 0
    /\ hypotheses = << >>
    /\ hyp_steps = << >>
    /\ hyp_scores = << >>
    /\ beam_search_res = EmptyBeamRes
    /\ hyp_index = 0
    /\ hyp_theorem = << >>
    /\ conti_hyp_scores = << >>
    /\ conti_hyp_steps = << >>
    /\ top_cand_hyp_pos = << >>
    /\ cand = 0
    /\ new_hypotheses = << >>
    /\ new_hyp_scores = << >>
    /\ new_hyp_steps = << >>

DropBeamLocals ==
    /\ t' = 0
    /\ hypotheses' = << >>
    /\ hyp_steps' = << >>
    /\ hyp_scores' = << >>
    /\ hyp_index' = 0
    /\ hyp_theorem' = << >>
    /\ conti_hyp_scores' = << >>
    /\ conti_hyp_steps' = << >>
    /\ top_cand_hyp_pos' = << >>
    /\ cand' = 0
    /\ new_hypotheses' = << >>
    /\ new_hyp_scores' = << >>
    /\ new_hyp_steps' = << >>

\* det.run = 0: one call of beam_search, the Scorer, the Registry and topk
\* answering each call as they may.  det.run = 1, 2: the first and the
\* second of two calls of beam_search on the same initial hypothesis with the
\* Scorer det.s and the Registry det.r; det.memo holds what topk returned for
\* each tensor it was given, det.trace the frontiers of the present call,
\* det.first the frontiers and the result of the first call.
NoFirst == [trace |-> << >>, res |-> EmptyBeamRes]
NoDet == [run |-> 0, s |-> 0, r |-> [noop |-> 0, depth |-> 0], memo |-> {},
          trace |-> << >>, first |-> NoFirst]

\* the state after the module is loaded and solve_with_time is about to be
\* called: AgentSolver(model_path, max_step, beam_size) / the arguments of
\* app.solve_with_time
Init ==
    /\ prog \in {"eval", "app"}
    /\ q_id \in QIds
    /\ max_step \in 0..MaxStep
    /\ beam_size \in 1..MaxBeam
    /\ opc = "start"
    /\ res = DefaultRes(q_id)
    /\ return_dict = << >>
    /\ thread_ret = None
    /\ pStatus = "none"
    /\ fStatus = "none"
    /\ spc = "none"
    /\ sres = DefaultRes(q_id)
    /\ graph_solver = NoHypothesis
    /\ NoBeamLocals
    /\ scorerCalls = 0
    /\ fbStarts = 0
    /\ carried = None
    /\ fbRecord = None
    /\ events = {}
    /\ det = NoDet

\* ------------------------------------------------------------ beam_search
Min(a, b) == IF a < b THEN a ELSE b

\* the test `if cur_score < EPSILON: continue`, as the condition to keep
KeepCandidateMut(p) == TRUE

KeepCandidate(p) == ~(p < EPSILON)

\* hyp_scores[hyp_index] + np.log(cur_score)
CandScoreMut(parent_score, p) == parent_score - NpLog(p)

CandScore(parent_score, p) == parent_score + NpLog(p)

\* the candidates one hypothesis contributes: the first beam_size entries of
\* its ranked distribution, without those below EPSILON
Kept(d) == SelectSeq(SubSeq(d, 1, beam_size), LAMBDA c : KeepCandidate(c.p))

\* k = min(self.beam_size, conti_hyp_scores.size(0))
TopKSizeMut(bs, n) == n

TopKSize(bs, n) == Min(bs, n)

\* torch.topk(scores, k): the positions of k largest values, by descending
\* value; which of several equal values comes first, or is selected at the
\* boundary, is not specified by torch
TopKMut(scores, k) == { [i \in 1..k |-> i] }

TopK(scores, k) ==
    { pos \in [1..k -> DOMAIN scores] :
        /\ \A i, j \in 1..k : i < j => pos[i] # pos[j] /\ scores[pos[i]] >= scores[pos[j]]
        /\ \A i \in 1..k : \A m \in DOMAIN scores :
              (\A j \in 1..k : pos[j] # m) => scores[m] <= scores[pos[i]] }

\* copy.deepcopy(prev_hyp): an independent object with the same value
copy_deepcopy(h) == h

\* the object prev_hyp refers to, once now_hyp = copy.deepcopy(prev_hyp) has
\* been changed into the value now: the clone shares nothing with it
prev_hyp_afterMut(prev, now) == now

prev_hyp_after(prev, now) == prev

\* ------------------------------------------- fixed Scorers and Registries
\* what a deterministic Scorer or Registry may look at in a hypothesis
DetKey(h) ==
    LET rr == h.reasoning_record
    IN Len(rr) + (IF rr = << >> THEN 0 ELSE rr[Len(rr)])

\* theorem_pred with fixed weights: the distribution is a function of the
\* hypothesis; s selects one such function
Scorers == 0..2
FixedScorer(s, h) == CHOOSE d \in ScorerOutcomes : d[1].th = ((DetKey(h) + s) % 3) + 1

\* get_model and solve_with_one_model as a function of the hypothesis and
\* the theorem: theorem r.noop matches nothing, a theorem already in the
\* reasoning record raises, the application that makes the record r.depth
\* long fills the answer slot, every other application updates
Registries == [noop : 0..3, depth : 1..(MaxStep + 1)]
FixedRegistry(r, h, theorem) ==
    IF theorem = r.noop THEN "noop"
    ELSE IF \E i \in DOMAIN h.reasoning_record : h.reasoning_record[i] = theorem
    THEN "raiseLate"
    ELSE IF Len(h.reasoning_record) + 1 = r.depth
    THEN (IF theorem % 2 = 1 THEN "answerRight" ELSE "answerWrong")
    ELSE "updated"

\* self.theorem_pred(hyp): what the Scorer may return for hyp
ScorerChoices(h) == IF det.run = 0 THEN ScorerOutcomes ELSE {FixedScorer(det.s, h)}

\* get_model(...) / now_hyp.solve_with_one_model(graph_model) on the clone
ApplyChoices(h, theorem) ==
    IF det.run = 0 THEN ApplyOutcomes ELSE {FixedRegistry(det.r, h, theorem)}

\* torch.topk(conti_hyp_scores, k) in one build: a function of the tensor,
\* which of several equal values it prefers being unspecified
TopKChoicesMut(scores, k) == TopK(scores, k)

TopKChoices(scores, k) ==
    IF det.run # 0 /\ \E m \in det.memo : m[1] = scores
    THEN {m[2] : m \in {x \in det.memo : x[1] = scores}}
    ELSE TopK(scores, k)

\* a unit of execution that is running and whose solve is at position pos
PrimaryAt(pos) == pStatus = "running" /\ spc = pos

\* the primary unit ends with the value r: solve_process stores it in
\* return_dict['result'] (eval.py); the thread of func_timeout returns it
\* (app.py).  The locals of solve and beam_search are gone.
PrimaryEnds(r) ==
    /\ IF prog = "eval"
       THEN return_dict' = [result |-> r] /\ UNCHANGED thread_ret
       ELSE thread_ret' = Some(r) /\ UNCHANGED return_dict
    /\ pStatus' = "stored"
    /\ spc' = "none"
    /\ sres' = DefaultRes(q_id)
    /\ graph_solver' = NoHypothesis
    /\ beam_search_res' = EmptyBeamRes
    /\ DropBeamLocals
    /\ UNCHANGED <<paramVars, opc, res, fStatus, fbStarts, carried, fbRecord>>

\* an exception raised inside solve: eval.py's solve_process catches it and
\* stores the default res it was given; app.py's solve catches it (lines
\* 205-210) and returns its local res
RaisedInSolve == PrimaryEnds(IF prog = "eval" THEN DefaultRes(q_id) ELSE sres)

\* lines 80-85 (app.py) / 86-90 (eval.py): the locals at entry
EnterBeamSearch ==
    /\ t' = 0
    /\ hypotheses' = <<graph_solver>>
    /\ hyp_steps' = << << >> >>
    /\ hyp_scores' = <<0>>
    /\ beam_search_res' = EmptyBeamRes
    /\ UNCHANGED <<poolVars, applyVars>>

\* the condition of `while t < max_step:`
LoopContinuesMut(tt, ms) == tt <= ms

LoopContinues(tt, ms) == tt < ms

\* `while t < max_step:` with the head of its body: t += 1, the assertion,
\* the three empty candidate lists; or the final `return beam_search_res`
BeamLoop ==
    /\ PrimaryAt("bs_loop")
    /\ IF LoopContinues(t, max_step)
       THEN IF Len(hypotheses) <= beam_size
            THEN /\ t' = t + 1
                 /\ hyp_index' = 1
                 /\ hyp_theorem' = << >>
                 /\ conti_hyp_scores' = << >>
                 /\ conti_hyp_steps' = << >>
                 /\ spc' = "bs_expand"
                 /\ UNCHANGED <<paramVars, orchVars, pStatus, solveVars, hypotheses,
                                hyp_steps, hyp_scores, beam_search_res, applyVars,
                                scorerCalls, events>>
            ELSE /\ events' = events \cup {"assert_failed"}
                 /\ RaisedInSolve
                 /\ UNCHANGED scorerCalls
       ELSE /\ spc' = "bs_done"
            /\ DropBeamLocals
            /\ UNCHANGED <<paramVars, orchVars, pStatus, solveVars, beam_search_res,
                           scorerCalls, events>>

\* one turn of `for hyp_index, hyp in enumerate(hypotheses)`: the Scorer is
\* queried for the hypothesis and its candidates are appended
BeamExpand ==
    /\ PrimaryAt("bs_expand")
    /\ hyp_index <= Len(hypotheses)
    /\ \E d \in ScorerChoices(hypotheses[hyp_index]) :
         LET kept == Kept(d)
             n == Len(kept)
         IN /\ hyp_theorem' = hyp_theorem \o
                   [i \in 1..n |-> [hyp |-> hyp_index, theorem |-> kept[i].th, p |-> kept[i].p]]
            /\ conti_hyp_scores' = conti_hyp_scores \o
                   [i \in 1..n |-> CandScore(hyp_scores[hyp_index], kept[i].p)]
            /\ conti_hyp_steps' = conti_hyp_steps \o
                   [i \in 1..n |-> Append(hyp_steps[hyp_index], kept[i].th)]
    /\ hyp_index' = hyp_index + 1
    /\ scorerCalls' = scorerCalls + 1
    /\ UNCHANGED <<paramVars, orchVars, pStatus, spc, solveVars, frontierVars, applyVars, events>>

\* theorem_pred raises (model inference fails): nothing in beam_search
\* catches it
ScorerRaises ==
    /\ PrimaryAt("bs_expand")
    /\ hyp_index <= Len(hypotheses)
    /\ events' = events \cup {"scorer_raised"}
    /\ scorerCalls' = scorerCalls + 1
    /\ RaisedInSolve

\* lines 111-117 (eval.py): the scores become a float32 tensor, topk selects,
\* the three new lists are emptied
BeamPrune ==
    /\ PrimaryAt("bs_expand")
    /\ hyp_index > Len(hypotheses)
    /\ LET tensor == [i \in DOMAIN conti_hyp_scores |-> F32(conti_hyp_scores[i])]
       IN /\ conti_hyp_scores' = tensor
          /\ top_cand_hyp_pos' \in TopKChoices(tensor, TopKSize(beam_size, Len(tensor)))
          /\ det' = IF det.run = 0 THEN det
                    ELSE [det EXCEPT !.memo = @ \cup {<<tensor, top_cand_hyp_pos'>>}]
    /\ cand' = 1
    /\ new_hypotheses' = << >>
    /\ new_hyp_scores' = << >>
    /\ new_hyp_steps' = << >>
    /\ spc' = "bs_apply"
    /\ UNCHANGED <<inputVars, orchVars, pStatus, solveVars, frontierVars, hyp_index,
                   hyp_theorem, conti_hyp_steps, scorerCalls, events>>

\* the two `continue` of the application loop (eval.py 128-129 and 130-132,
\* app.py 122-123 and 124-126): an exception, or is_updated left False
DropsCandidateMut(raised, h) == raised

DropsCandidate(raised, h) == raised \/ ~h.is_updated

\* beam_search_res as filled before `return beam_search_res` (eval.py
\* 136-138, app.py 130-132): eval.py returns the theorem list of the
\* candidate, app.py the clone's reasoning record
BeamResultMut(h, now_steps) ==
    [answer |-> h.answer, step_lst |-> << >>, model_instance_eq_num |-> None]

BeamResult(h, now_steps) ==
    [answer |-> h.answer,
     step_lst |-> IF prog = "eval" THEN now_steps ELSE h.reasoning_record,
     model_instance_eq_num |-> Some(h.model_instance_eq_num)]

\* `if now_hyp.answer is not None:` (eval.py 135, app.py 129): the condition
\* under which beam_search returns the clone's answer
ReturnsAnswerMut(h) ==
    h.answer # None /\ check_transformed_answer(h.answer[1]).correctness

ReturnsAnswer(h) == h.answer # None

\* one turn of `for cand_hyp_id, cand_hyp_score in zip(...)`: clone the
\* parent, apply the theorem; drop the clone, return its answer, or keep it
BeamApply ==
    /\ PrimaryAt("bs_apply")
    /\ cand <= Len(top_cand_hyp_pos)
    /\ \E outcome \in ApplyChoices(hypotheses[hyp_theorem[top_cand_hyp_pos[cand]].hyp],
                                    hyp_theorem[top_cand_hyp_pos[cand]].theorem) :
         LET cand_hyp_id == top_cand_hyp_pos[cand]
             new_score == conti_hyp_scores[cand_hyp_id]
             parent == hyp_theorem[cand_hyp_id].hyp
             prev_hyp == hypotheses[parent]
             theorem == hyp_theorem[cand_hyp_id].theorem
             now_steps == conti_hyp_steps[cand_hyp_id]
             raised == outcome \in {"raise", "raiseLate"}
             now_hyp == IF outcome = "raise" THEN copy_deepcopy(prev_hyp)
                        ELSE IF outcome = "raiseLate"
                        THEN solve_with_one_model(copy_deepcopy(prev_hyp), theorem, "updated")
                        ELSE solve_with_one_model(copy_deepcopy(prev_hyp), theorem, outcome)
             parent_after == prev_hyp_after(prev_hyp, now_hyp)
             failed == raised \/ outcome = "noop"
             monitor == (IF hyp_theorem[cand_hyp_id].p < EPSILON
                         THEN {"applied_below_eps"} ELSE {})
                        \cup (IF parent_after # prev_hyp THEN {"parent_changed"} ELSE {})
                        \cup (IF failed THEN {"dropped"} ELSE {})
                        \cup (IF outcome # "raise" /\ now_hyp.answer # None
                              THEN {"clone_answer"} ELSE {})
                        \cup (IF failed /\ (\/ spc' # "bs_apply"
                                             \/ cand' # cand + 1
                                             \/ new_hypotheses' # new_hypotheses
                                             \/ new_hyp_scores' # new_hyp_scores
                                             \/ new_hyp_steps' # new_hyp_steps
                                             \/ beam_search_res' # beam_search_res)
                              THEN {"failed_candidate_used"} ELSE {})
         IN /\ IF DropsCandidate(raised, now_hyp)
               THEN /\ cand' = cand + 1
                    /\ hypotheses' = [hypotheses EXCEPT ![parent] = parent_after]
                    /\ UNCHANGED <<spc, t, hyp_steps, hyp_scores, beam_search_res, poolVars,
                                   top_cand_hyp_pos, new_hypotheses, new_hyp_scores,
                                   new_hyp_steps>>
               ELSE IF ReturnsAnswer(now_hyp)
               THEN /\ beam_search_res' = BeamResult(now_hyp, now_steps)
                    /\ spc' = "bs_done"
                    /\ DropBeamLocals
               ELSE /\ new_hypotheses' = Append(new_hypotheses, now_hyp)
                    /\ new_hyp_scores' = Append(new_hyp_scores, new_score)
                    /\ new_hyp_steps' = Append(new_hyp_steps, now_steps)
                    /\ cand' = cand + 1
                    /\ hypotheses' = [hypotheses EXCEPT ![parent] = parent_after]
                    /\ UNCHANGED <<spc, t, hyp_steps, hyp_scores, beam_search_res, poolVars,
                                   top_cand_hyp_pos>>
            /\ events' = events \cup monitor
    /\ UNCHANGED <<paramVars, orchVars, pStatus, solveVars, scorerCalls>>

\* lines 145-147 (eval.py): the new lists become the frontier
BeamRebuild ==
    /\ PrimaryAt("bs_apply")
    /\ cand > Len(top_cand_hyp_pos)
    /\ hypotheses' = new_hypotheses
    /\ hyp_scores' = new_hyp_scores
    /\ hyp_steps' = new_hyp_steps
    /\ spc' = "bs_loop"
    /\ det' = IF det.run = 0 THEN det
              ELSE [det EXCEPT !.trace = Append(@, <<new_hypotheses, new_hyp_scores,
                                                     new_hyp_steps>>)]
    /\ UNCHANGED <<inputVars, orchVars, pStatus, solveVars, t, beam_search_res, poolVars,
                   applyVars, scorerCalls, events>>

\* ------------------------------------------------------------------ solve
Elapsed == Some("elapsed")

\* the head of solve: the data file is read, get_graph_solver and
\* init_solve build the initial hypothesis.  app.py's solve first makes the
\* eligibility test and sets res["target"] only later; eval.py's sets it here.
SolveInit ==
    /\ PrimaryAt("entry")
    /\ IF prog = "app" /\ Ineligible(q_id)
       THEN PrimaryEnds(DefaultRes(q_id))
       ELSE /\ graph_solver' \in InitialHypotheses
            /\ sres' = IF prog = "eval"
                       THEN [DefaultRes(q_id) EXCEPT !.target = Some("target")]
                       ELSE DefaultRes(q_id)
            /\ spc' = "direct"
            /\ UNCHANGED <<paramVars, orchVars, pStatus, beamVars>>
    /\ UNCHANGED <<scorerCalls, events>>

\* the head of solve raises.  In eval.py every statement of solve is under
\* the try of solve_process.  In app.py the data file is read outside the
\* try of solve (the exception leaves the thread), get_graph_solver and
\* init_solve inside it.
SolveInitRaises ==
    /\ PrimaryAt("entry")
    /\ ~(prog = "app" /\ Ineligible(q_id))
    /\ \/ RaisedInSolve
       \/ /\ prog = "app"
          /\ PrimaryEnds([raised |-> TRUE])
    /\ events' = events \cup {"init_raised"}
    /\ UNCHANGED scorerCalls

\* the record returned when the direct check succeeds (eval.py 171-175,
\* app.py 184-189), h being the initial hypothesis
DirectResultMut(r, h) ==
    [r EXCEPT !.target = Some("target"),
              !.answer = Some(check_transformed_answer(h.answer[1]).answer),
              !.model_instance_eq_num = Some(h.model_instance_eq_num),
              !.time = Elapsed]

DirectResult(r, h) ==
    [r EXCEPT !.correctness = "yes",
              !.target = Some("target"),
              !.answer = Some(check_transformed_answer(h.answer[1]).answer),
              !.model_instance_eq_num = Some(h.model_instance_eq_num),
              !.time = Elapsed]

\* `if answer is not None:` ... `if correctness:` (eval.py 168-170, app.py
\* 181-183): the condition under which solve returns from the direct check
DirectReturnsMut(h) == h.answer # None

DirectReturns(h) ==
    h.answer # None /\ check_transformed_answer(h.answer[1]).correctness

\* the direct check (eval.py 167-175, app.py 180-189) and, when it does not
\* return, the call of beam_search
DirectCheck ==
    /\ PrimaryAt("direct")
    /\ IF DirectReturns(graph_solver)
       THEN /\ PrimaryEnds(DirectResult(sres, graph_solver))
            /\ events' = events \cup {"direct_yes"}
       ELSE /\ EnterBeamSearch
            /\ spc' = "bs_loop"
            /\ events' = events \cup (IF graph_solver.answer # None
                                      THEN {"direct_rejected"} ELSE {})
            /\ UNCHANGED <<paramVars, orchVars, pStatus, solveVars>>
    /\ UNCHANGED scorerCalls

\* what solve returns after beam_search (eval.py 178-188)
SolveResultEval(r, bsr) ==
    LET r1 == [r EXCEPT !.step_lst = bsr.step_lst,
                        !.model_instance_eq_num = bsr.model_instance_eq_num,
                        !.time = Elapsed]
        v == check_transformed_answer(bsr.answer[1])
    IN IF bsr.answer # None
       THEN [r1 EXCEPT !.answer = Some(v.answer),
                       !.correctness = IF v.correctness THEN "yes" ELSE @]
       ELSE r1

\* what solve returns after beam_search (app.py 192-204): when the answer is
\* not verified no return statement is reached
SolveResultApp(r, bsr) ==
    LET r1 == [r EXCEPT !.step_lst = bsr.step_lst,
                        !.model_instance_eq_num = bsr.model_instance_eq_num,
                        !.time = Elapsed]
        v == check_transformed_answer(bsr.answer[1])
    IN IF bsr.answer # None
       THEN IF v.correctness
            THEN [r1 EXCEPT !.correctness = "yes", !.target = Some("target"),
                            !.answer = Some(v.answer)]
            ELSE PyNone
       ELSE r1

SolveFinish ==
    /\ PrimaryAt("bs_done")
    /\ PrimaryEnds(IF prog = "eval" THEN SolveResultEval(sres, beam_search_res)
                   ELSE SolveResultApp(sres, beam_search_res))
    /\ events' = events \cup {"beam_returned"}
                        \cup (IF beam_search_res.answer # None THEN {"beam_answer"} ELSE {})
                        \cup (IF beam_search_res.answer # None
                                 /\ ~check_transformed_answer(beam_search_res.answer[1]).correctness
                              THEN {"beam_rejected"} ELSE {})
    /\ UNCHANGED scorerCalls

\* --------------------------------------------- solve_with_time of eval.py
\* return_dict.get('result', res)
ReturnDictGet(d, default) == IF "result" \in DOMAIN d THEN d.result ELSE default

\* `if res["correctness"] == "no":`
NeedsFallbackMut(r) == r.correctness = "yes"

NeedsFallback(r) == r.correctness = "no"

\* p.terminate(); p.join() (eval.py 226-227) / the thread is stopped
\* (app.py 151): the unit of execution and its memory are gone
PrimaryGoneMut ==
    UNCHANGED <<pStatus, spc, sres, graph_solver, beamVars>>

PrimaryGone ==
    /\ pStatus' = "terminated"
    /\ spc' = "none"
    /\ sres' = DefaultRes(q_id)
    /\ graph_solver' = NoHypothesis
    /\ beam_search_res' = EmptyBeamRes
    /\ DropBeamLocals

\* lines 209-224: the eligibility test, the manager dict, p.start()
SolveWithTime ==
    /\ prog = "eval"
    /\ opc = "start"
    /\ res' = DefaultRes(q_id)
    /\ IF Ineligible(q_id)
       THEN /\ opc' = "done"
            /\ UNCHANGED <<pStatus, spc, return_dict>>
       ELSE /\ return_dict' = << >>
            /\ pStatus' = "running"
            /\ spc' = "entry"
            /\ opc' = "join_p"
    /\ UNCHANGED <<paramVars, thread_ret, fStatus, fbStarts, carried, fbRecord, solveVars,
                   beamVars, scorerCalls, events>>

\* lines 230-237: the result slot is read; the fallback process is started
\* when the record read says "no", and the record is returned otherwise
AfterPrimary ==
    LET r == ReturnDictGet(return_dict, res)
    IN /\ res' = r
       /\ carried' = Some(r)
       /\ IF NeedsFallback(r)
          THEN /\ fStatus' = "running"
               /\ fbStarts' = fbStarts + 1
               /\ opc' = "join_f"
          ELSE /\ opc' = "done"
               /\ UNCHANGED <<fStatus, fbStarts>>
       /\ UNCHANGED <<paramVars, return_dict, thread_ret, fbRecord, scorerCalls>>

\* solve_process has stored its result; the process ends
PrimaryExits ==
    /\ prog = "eval"
    /\ pStatus = "stored"
    /\ pStatus' = "exited"
    /\ UNCHANGED <<paramVars, orchVars, spc, solveVars, beamVars, scorerCalls, events>>

\* p.join(120) returns before the 120 s have passed: the process has ended
JoinedInTimeMut(status) == status # "none"

JoinedInTime(status) == status = "exited"

\* p.join(120) returns because the process has ended
PrimaryJoined ==
    /\ prog = "eval"
    /\ opc = "join_p"
    /\ JoinedInTime(pStatus)
    /\ AfterPrimary
    /\ UNCHANGED <<pStatus, spc, solveVars, beamVars, events>>

\* p.join(120) returns after 120 s, p.is_alive(): p.terminate(); p.join()
PrimaryTimeout ==
    /\ prog = "eval"
    /\ opc = "join_p"
    /\ pStatus \in {"running", "stored"}
    /\ PrimaryGone
    /\ events' = events \cup {"p_timeout"}
                        \cup (IF pStatus = "running" THEN {"p_unfinished"} ELSE {})
    /\ AfterPrimary

\* solve_heuristic_process: solve_question returns a record
HeuristicReturns ==
    /\ fStatus = "running"
    /\ \E R \in HeuristicRecords(q_id) :
         /\ return_dict' = [result |-> R]
         /\ fbRecord' = Some(R)
    /\ fStatus' = "stored"
    /\ events' = events \cup {"fb_returned"}
    /\ UNCHANGED <<paramVars, opc, res, thread_ret, fbStarts, carried, pStatus, spc,
                   solveVars, beamVars, scorerCalls>>

\* solve_heuristic_process: solve_question raises; the res it was given (the
\* record read after the primary) is stored
HeuristicRaisesMut ==
    /\ fStatus = "running"
    /\ return_dict' = [result |-> DefaultRes(q_id)]
    /\ fStatus' = "stored"
    /\ events' = events \cup {"fb_raised"}
    /\ UNCHANGED <<paramVars, opc, res, thread_ret, fbStarts, carried, fbRecord, pStatus, spc,
                   solveVars, beamVars, scorerCalls>>

HeuristicRaises ==
    /\ fStatus = "running"
    /\ return_dict' = [result |-> res]
    /\ fStatus' = "stored"
    /\ events' = events \cup {"fb_raised"}
    /\ UNCHANGED <<paramVars, opc, res, thread_ret, fbStarts, carried, fbRecord, pStatus, spc,
                   solveVars, beamVars, scorerCalls>>

FallbackExits ==
    /\ fStatus = "stored"
    /\ fStatus' = "exited"
    /\ UNCHANGED <<paramVars, opc, res, return_dict, thread_ret, fbStarts, carried, fbRecord,
                   pStatus, spc, solveVars, beamVars, scorerCalls, events>>

\* lines 243-246: the result slot is read again and returned
AfterFallbackMut ==
    /\ opc' = "done"
    /\ UNCHANGED <<paramVars, res, return_dict, thread_ret, fbStarts, carried, fbRecord,
                   pStatus, spc, solveVars, beamVars, scorerCalls>>

AfterFallback ==
    /\ res' = ReturnDictGet(return_dict, res)
    /\ opc' = "done"
    /\ UNCHANGED <<paramVars, return_dict, thread_ret, fbStarts, carried, fbRecord, pStatus,
                   spc, solveVars, beamVars, scorerCalls>>

FallbackJoined ==
    /\ opc = "join_f"
    /\ JoinedInTime(fStatus)
    /\ AfterFallback
    /\ UNCHANGED <<fStatus, events>>

\* p_fallback.terminate(); p_fallback.join() (eval.py 239-240)
FallbackGoneMut == UNCHANGED fStatus

FallbackGone == fStatus' = "terminated"

\* p_fallback.join(120) returns after 120 s, p_fallback.is_alive()
FallbackTimeout ==
    /\ opc = "join_f"
    /\ fStatus \in {"running", "stored"}
    /\ FallbackGone
    /\ events' = events \cup {"fb_timeout"}
                        \cup (IF fStatus = "running" THEN {"fb_unfinished"} ELSE {})
    /\ AfterFallback

\* ---------------------------------------------- solve_with_time of app.py
\* lines 147-151: the default res and func_timeout starting solve in a thread
AppSolveWithTime ==
    /\ prog = "app"
    /\ opc = "start"
    /\ res' = DefaultRes(BuiltinId)
    /\ pStatus' = "running"
    /\ spc' = "entry"
    /\ opc' = "join_p"
    /\ UNCHANGED <<paramVars, return_dict, thread_ret, fStatus, fbStarts, carried, fbRecord,
                   solveVars, beamVars, scorerCalls, events>>

\* func_timeout returns what solve returned (line 152), or re-raises what it
\* raised, which `except Exception` turns into the default res (line 158)
AppJoined ==
    /\ prog = "app"
    /\ opc = "join_p"
    /\ pStatus = "stored"
    /\ res' = IF "raised" \in DOMAIN thread_ret[1] THEN res ELSE thread_ret[1]
    /\ pStatus' = "exited"
    /\ opc' = "done"
    /\ UNCHANGED <<paramVars, return_dict, thread_ret, fStatus, fbStarts, carried, fbRecord,
                   spc, solveVars, beamVars, scorerCalls, events>>

\* func_timeout raises FunctionTimedOut after 120 s and stops the thread;
\* the default res is returned (line 155)
AppTimeout ==
    /\ prog = "app"
    /\ opc = "join_p"
    /\ pStatus = "running"
    /\ PrimaryGone
    /\ opc' = "done"
    /\ events' = events \cup {"p_timeout", "p_unfinished"}
    /\ UNCHANGED <<paramVars, res, return_dict, thread_ret, fStatus, fbStarts, carried,
                   fbRecord, scorerCalls>>

\* -------------------------------------------------------------- behaviours
Next ==
    \/ SolveWithTime
    \/ PrimaryExits
    \/ PrimaryJoined
    \/ PrimaryTimeout
    \/ HeuristicReturns
    \/ HeuristicRaises
    \/ FallbackExits
    \/ FallbackJoined
    \/ FallbackTimeout
    \/ AppSolveWithTime
    \/ AppJoined
    \/ AppTimeout
    \/ SolveInit
    \/ SolveInitRaises
    \/ DirectCheck
    \/ SolveFinish
    \/ BeamLoop
    \/ BeamExpand
    \/ ScorerRaises
    \/ BeamPrune
    \/ BeamApply
    \/ BeamRebuild

Spec == Init /\ [][Next]_vars

\* solve_with_time runs in the main process, and join(120) returns when the
\* process has ended or 120 s have passed; nothing is assumed of the
\* primary and the fallback, which may block forever
FairSpec ==
    /\ Spec
    /\ WF_vars(SolveWithTime)
    /\ WF_vars(PrimaryJoined \/ PrimaryTimeout)
    /\ WF_vars(FallbackJoined \/ FallbackTimeout)

\* ------------------------------------- two calls of beam_search, same input
\* solve has built an initial hypothesis whose answer, if any, was rejected,
\* and calls beam_search (eval.py 178, app.py 192) with the Scorer det.s and
\* the Registry det.r
DetInit ==
    /\ prog \in {"eval", "app"}
    /\ q_id \in {q \in QIds : ~Ineligible(q)}
    /\ max_step \in 0..MaxStep
    /\ beam_size \in 1..MaxBeam
    /\ opc = "join_p"
    /\ res = DefaultRes(IF prog = "eval" THEN q_id ELSE BuiltinId)
    /\ return_dict = << >>
    /\ thread_ret = None
    /\ pStatus = "running"
    /\ fStatus = "none"
    /\ spc = "bs_loop"
    /\ sres = IF prog = "eval" THEN [DefaultRes(q_id) EXCEPT !.target = Some("target")]
              ELSE DefaultRes(q_id)
    /\ graph_solver \in {h \in InitialHypotheses :
                            h.answer = None
                            \/ ~check_transformed_answer(h.answer[1]).correctness}
    /\ t = 0
    /\ hypotheses = <<graph_solver>>
    /\ hyp_steps = << << >> >>
    /\ hyp_scores = <<0>>
    /\ beam_search_res = EmptyBeamRes
    /\ hyp_index = 0
    /\ hyp_theorem = << >>
    /\ conti_hyp_scores = << >>
    /\ conti_hyp_steps = << >>
    /\ top_cand_hyp_pos = << >>
    /\ cand = 0
    /\ new_hypotheses = << >>
    /\ new_hyp_scores = << >>
    /\ new_hyp_steps = << >>
    /\ scorerCalls = 0
    /\ fbStarts = 0
    /\ carried = None
    /\ fbRecord = None
    /\ events = IF graph_solver.answer # None THEN {"direct_rejected"} ELSE {}
    /\ \E s \in Scorers, r \in Registries :
          det = [run |-> 1, s |-> s, r |-> r, memo |-> {}, trace |-> << >>,
                 first |-> NoFirst]

\* beam_search has returned; it is called again with the same graph_solver
BeamSearchAgain ==
    /\ PrimaryAt("bs_done")
    /\ det.run = 1
    /\ det' = [det EXCEPT !.run = 2,
                          !.first = [trace |-> det.trace, res |-> beam_search_res],
                          !.trace = << >>]
    /\ EnterBeamSearch
    /\ spc' = "bs_loop"
    /\ UNCHANGED <<inputVars, orchVars, pStatus, solveVars, scorerCalls, events>>

DetNext ==
    \/ BeamLoop
    \/ BeamExpand
    \/ BeamPrune
    \/ BeamApply
    \/ BeamRebuild
    \/ BeamSearchAgain

DetSpec == DetInit /\ [][DetNext]_vars

\* ------------------------------------------------- one call of beam_search
\* solve calls beam_search (eval.py 178, app.py 192): the initial hypothesis
\* has no answer or one the verifier rejected; the Scorer, the Registry and
\* topk answer each call as they may
BeamSearchInit ==
    /\ prog \in {"eval", "app"}
    /\ q_id \in {q \in QIds : ~Ineligible(q)}
    /\ max_step \in 0..MaxStep
    /\ beam_size \in 1..MaxBeam
    /\ opc = "join_p"
    /\ res = DefaultRes(IF prog = "eval" THEN q_id ELSE BuiltinId)
    /\ return_dict = << >>
    /\ thread_ret = None
    /\ pStatus = "running"
    /\ fStatus = "none"
    /\ spc = "bs_loop"
    /\ sres = IF prog = "eval" THEN [DefaultRes(q_id) EXCEPT !.target = Some("target")]
              ELSE DefaultRes(q_id)
    /\ graph_solver \in {h \in InitialHypotheses : ~DirectReturns(h)}
    /\ t = 0
    /\ hypotheses = <<graph_solver>>
    /\ hyp_steps = << << >> >>
    /\ hyp_scores = <<0>>
    /\ beam_search_res = EmptyBeamRes
    /\ hyp_index = 0
    /\ hyp_theorem = << >>
    /\ conti_hyp_scores = << >>
    /\ conti_hyp_steps = << >>
    /\ top_cand_hyp_pos = << >>
    /\ cand = 0
    /\ new_hypotheses = << >>
    /\ new_hyp_scores = << >>
    /\ new_hyp_steps = << >>
    /\ scorerCalls = 0
    /\ fbStarts = 0
    /\ carried = None
    /\ fbRecord = None
    /\ events = IF graph_solver.answer # None THEN {"direct_rejected"} ELSE {}
    /\ det = NoDet

\* the statements of beam_search; theorem_pred may raise
BeamSearchNext ==
    \/ BeamLoop
    \/ BeamExpand
    \/ ScorerRaises
    \/ BeamPrune
    \/ BeamApply
    \/ BeamRebuild

\* beam_search is running (between its first statement and its return)
BeamSearchRuns == PrimaryAt("bs_loop") \/ PrimaryAt("bs_expand") \/ PrimaryAt("bs_apply")

\* a running beam_search has a next statement to execute, and only a running
\* one has
BeamSearchNeverStuck == BeamSearchRuns <=> ENABLED <<BeamSearchNext>>_vars

\* beam_search runs in one unit of execution, which is not cut off, and
\* every call it makes (theorem_pred, topk, deepcopy, get_model,
\* solve_with_one_model) comes back, by a return or by an exception: weak
\* fairness of BeamSearchNext, WF_vars(BeamSearchNext), written out with
\* BeamSearchRuns for ENABLED <<BeamSearchNext>>_vars (BeamSearchNeverStuck)
BeamSearchFairness == []<>(~BeamSearchRuns) \/ []<><<BeamSearchNext>>_vars

BeamSearchSpec ==
    /\ BeamSearchInit
    /\ [][BeamSearchNext]_vars
    /\ BeamSearchFairness

\* -------------------------------------------------------------- properties
InBeamIteration == spc \in {"bs_expand", "bs_apply"}

PrimaryRaised == events \cap {"init_raised", "scorer_raised", "assert_failed"} # {}

\* the ineligibility of q_id, read off the reference data
MissingOrExcluded ==
    \/ q_id \notin diagram_logic_forms_json
    \/ q_id \notin text_logic_forms_json
    \/ q_id \in error_ids

\* C1: in beam_search the number of active hypotheses is at most beam_size
\* when an iteration starts and after the frontier is rebuilt from the
\* survivors, whatever the Scorer and the Theorem Registry do; the assertion
\* hyp_num <= beam_size never fails.
C1_BeamWidth ==
    /\ Len(hypotheses) <= beam_size
    /\ Len(new_hypotheses) <= beam_size
    /\ Len(top_cand_hyp_pos) <= beam_size
    /\ Len(hyp_scores) = Len(hypotheses)
    /\ Len(hyp_steps) = Len(hypotheses)
    /\ "assert_failed" \notin events

\* the frontier was rebuilt full after a pool larger than beam_size was pruned
C1_Witness ==
    /\ spc = "bs_loop"
    /\ t = 2
    /\ beam_size = 2
    /\ Len(hyp_theorem) > beam_size
    /\ Len(hypotheses) = beam_size

\* C2: solve_with_time always returns a well-formed result record (the seven
\* fields, correctness yes or no), on every path.
WellFormed(r) ==
    /\ DOMAIN r = ResultFields
    /\ r.correctness \in {"yes", "no"}

C2_WellFormedResult == opc = "done" => WellFormed(res)

\* C3: when the primary has not completed (stored its result) by the time
\* its deadline is enforced, it is terminated, the record carried forward is
\* the default record with correctness no, and (eval.py, the orchestrator
\* that has a fallback) the fallback is started exactly once.
IsDefault(r) ==
    /\ r.answer = None
    /\ r.step_lst = << >>
    /\ r.model_instance_eq_num = None
    /\ r.correctness = "no"

C4_FallbackIffNo ==
    prog = "eval" =>
        /\ carried = None => fbStarts = 0 /\ fStatus = "none"
        /\ carried # None =>
              IF carried[1].correctness = "no"
              THEN fbStarts = 1 /\ fStatus # "none"
              ELSE /\ fbStarts = 0
                   /\ fStatus = "none"
                   /\ opc = "done"
                   /\ res = carried[1]
                   /\ return_dict = [result |-> res]
        /\ ("p_unfinished" \in events \/ PrimaryRaised) /\ opc # "join_p" => fbStarts = 1

\* the Scorer raised, which ended the primary attempt, and the fallback ran
C4_Witness ==
    /\ prog = "eval"
    /\ "scorer_raised" \in events
    /\ opc = "done"
    /\ fbStarts = 1

\* C5: (eval.py) when the primary's record has correctness no and the
\* fallback returns a record R with correctness yes, solve_with_time returns
\* exactly R.
C5_FallbackRecordReturned ==
    (/\ prog = "eval"
     /\ opc = "done"
     /\ carried # None /\ carried[1].correctness = "no"
     /\ fbRecord # None /\ fbRecord[1].correctness = "yes")
    => res = fbRecord[1]

\* the primary had found an answer the verifier rejected; the fallback's
\* record is returned
C5_Witness ==
    /\ prog = "eval"
    /\ opc = "done"
    /\ carried # None /\ carried[1].answer # None /\ carried[1].step_lst # << >>
    /\ fbRecord # None /\ fbRecord[1].correctness = "yes"
    /\ res = fbRecord[1]

\* C6 as stated: when the fallback times out or raises, the default record
\* (answer, step list and equation count empty, correctness no) is returned,
\* whatever the primary had produced.
FallbackFailed == "fb_unfinished" \in events \/ "fb_raised" \in events

C6_DefaultAfterFallbackFailure ==
    (prog = "eval" /\ opc = "done" /\ FallbackFailed) => IsDefault(res)

\* C6 amended: when the fallback times out or raises, the record read after
\* the primary is returned; its correctness is no, and it is the default
\* record when the primary timed out or raised.
C6_CarriedAfterFallbackFailure ==
    (prog = "eval" /\ opc = "done" /\ FallbackFailed) =>
        /\ carried # None
        /\ res = carried[1]
        /\ res.correctness = "no"
        /\ ("p_unfinished" \in events \/ PrimaryRaised) => res = DefaultRes(q_id)

\* the primary completed with a rejected answer, the fallback raised
C6_Witness ==
    /\ prog = "eval"
    /\ opc = "done"
    /\ "fb_raised" \in events
    /\ "beam_answer" \in events
    /\ res.answer # None

\* C7: when the initial hypothesis carries an answer the verifier accepts,
\* solve_with_time returns correctness yes, no beam-search iteration runs,
\* the Scorer is never queried and no fallback is started.
C7_DirectCheck ==
    "direct_yes" \in events =>
        /\ scorerCalls = 0
        /\ t = 0
        /\ ~InBeamIteration
        /\ "beam_returned" \notin events
        /\ fbStarts = 0
        /\ fStatus = "none"
        /\ opc = "done" => res.correctness = "yes" /\ res.answer = Some("choiceRight")

C7_Witness ==
    /\ prog = "eval"
    /\ max_step > 0
    /\ "direct_yes" \in events
    /\ opc = "done"

C9_EpsilonFilter ==
    /\ \A i \in DOMAIN hyp_theorem : hyp_theorem[i].p >= EPSILON
    /\ spc = "bs_apply" =>
          \A j \in DOMAIN top_cand_hyp_pos : hyp_theorem[top_cand_hyp_pos[j]].p >= EPSILON
    /\ "applied_below_eps" \notin events

\* the Scorer ranked a candidate below EPSILON among the first beam_size of
\* one hypothesis and one exactly at EPSILON for another; the first was
\* discarded, the second is in the pool, and the survivors were applied
C9_Witness ==
    /\ spc = "bs_apply"
    /\ cand > Len(top_cand_hyp_pos)
    /\ Len(top_cand_hyp_pos) = beam_size
    /\ Len(hyp_theorem) < beam_size * Len(hypotheses)
    /\ \E i \in DOMAIN hyp_theorem : hyp_theorem[i].p = EPSILON

\* C10: a candidate's score is its parent's cumulative score plus the log of
\* its probability (stored as float32 once the pool is a tensor), it is at
\* most the parent's score, and no score is positive.
C10_ScoreMonotone ==
    /\ InBeamIteration =>
          \A i \in DOMAIN hyp_theorem :
             LET parent == hyp_scores[hyp_theorem[i].hyp]
                 exact == parent + NpLog(hyp_theorem[i].p)
             IN /\ conti_hyp_scores[i] = IF spc = "bs_expand" THEN exact ELSE F32(exact)
                /\ conti_hyp_scores[i] <= parent
    /\ spc = "bs_apply" =>
          \A j \in DOMAIN new_hyp_scores :
             \E i \in DOMAIN hyp_theorem :
                /\ new_hyp_steps[j] = conti_hyp_steps[i]
                /\ new_hyp_scores[j] = conti_hyp_scores[i]
                /\ new_hyp_scores[j] <= hyp_scores[hyp_theorem[i].hyp]
    /\ \A i \in DOMAIN hyp_scores : hyp_scores[i] <= 0
    /\ \A j \in DOMAIN new_hyp_scores : new_hyp_scores[j] <= 0

\* second iteration: a survivor scores strictly below a parent that itself
\* scores below 0, and another equals its parent's score (probability 1)
C10_Witness ==
    /\ spc = "bs_apply"
    /\ t = 2
    /\ \E j \in DOMAIN new_hyp_scores :
          \E i \in DOMAIN hyp_theorem :
             /\ new_hyp_steps[j] = conti_hyp_steps[i]
             /\ new_hyp_scores[j] < hyp_scores[hyp_theorem[i].hyp]
             /\ hyp_scores[hyp_theorem[i].hyp] < 0
    /\ \E i \in DOMAIN hyp_theorem :
          conti_hyp_scores[i] = hyp_scores[hyp_theorem[i].hyp]

C12_ZeroSteps ==
    max_step = 0 =>
        /\ scorerCalls = 0
        /\ "scorer_raised" \notin events
        /\ t = 0
        /\ ~InBeamIteration
        /\ top_cand_hyp_pos = << >>
        /\ new_hypotheses = << >>
        /\ beam_search_res = EmptyBeamRes
        /\ spc = "bs_loop" => hypotheses = <<graph_solver>>

\* beam_search has returned to solve with max_step = 0
C12_Witness ==
    /\ max_step = 0
    /\ pStatus = "running"
    /\ spc = "bs_done"
    /\ beam_search_res = EmptyBeamRes

BoundaryTie(m) ==
    /\ m[2] # << >>
    /\ \E i \in DOMAIN m[1] :
          /\ \A j \in DOMAIN m[2] : m[2][j] # i
          /\ m[1][i] = m[1][m[2][Len(m[2])]]

NotAlive(status) == status \in {"none", "exited", "terminated"}

C14_ForcefulCancellation ==
    (prog = "eval") =>
        <>(/\ opc = "done"
           /\ NotAlive(pStatus)
           /\ NotAlive(fStatus)
           /\ "p_unfinished" \in events => pStatus = "terminated"
           /\ "fb_unfinished" \in events => fStatus = "terminated")

\* the primary and the fallback were both terminated before they had stored
\* a result, and solve_with_time has returned
C14_Witness ==
    /\ prog = "eval"
    /\ opc = "done"
    /\ "p_unfinished" \in events
    /\ "fb_unfinished" \in events
    /\ pStatus = "terminated"
    /\ fStatus = "terminated"

\* C15 as stated: when the initial hypothesis has an answer, solve verifies
\* it and returns without running beam search, accepted or not.
InBeamSearch == spc \in {"bs_loop", "bs_expand", "bs_apply", "bs_done"}

DirectChecked == "direct_yes" \in events \/ "direct_rejected" \in events

C15_DirectCheckAlwaysReturns ==
    DirectChecked =>
        /\ ~InBeamIteration
        /\ t = 0
        /\ scorerCalls = 0

\* C15 amended: when the initial hypothesis has an answer, solve verifies
\* it; if the verifier accepts it solve returns at once with that answer and
\* beam search is not run; if the verifier rejects it solve calls
\* beam_search on that hypothesis.
C15_DirectCheckReturnsIfAccepted ==
    /\ ~("direct_yes" \in events /\ "direct_rejected" \in events)
    /\ (graph_solver.answer # None /\ spc # "direct") => "direct_rejected" \in events
    /\ "direct_yes" \in events =>
          /\ ~InBeamSearch
          /\ spc = "none"
          /\ scorerCalls = 0
          /\ "beam_returned" \notin events
          /\ opc = "done" => res.answer = Some(Normalise("rawRight"))
    /\ "direct_rejected" \in events =>
          /\ pStatus = "running" => InBeamSearch /\ graph_solver.answer = Some("rawWrong")
          /\ spc = "bs_loop" /\ t = 0 => hypotheses = <<graph_solver>>

\* the initial answer was rejected and beam search is applying candidates
C15_Witness ==
    /\ "direct_rejected" \in events
    /\ spc = "bs_apply"
    /\ scorerCalls >= 1

\* C16 as stated: an answer the verifier does not accept does not end the
\* beam search.
C16_MismatchNotTerminal ==
    (spc = "bs_done" /\ beam_search_res.answer # None) =>
        check_transformed_answer(beam_search_res.answer[1]).correctness

\* C16 amended: beam_search does not consult the verifier.  A clone that
\* carries an answer after an application never joins the frontier: it ends
\* the search, accepted or not.  When the verifier then rejects the answer,
\* the primary attempt is over: eval.py stores a record with that answer
\* and correctness no (and the fallback follows), app.py's solve returns no
\* record.
C16_MismatchEndsSearch ==
    /\ \A j \in DOMAIN new_hypotheses : new_hypotheses[j].answer = None
    /\ \A k \in DOMAIN hypotheses :
          hypotheses[k].reasoning_record # << >> => hypotheses[k].answer = None
    /\ "beam_rejected" \in events =>
          /\ spc = "none"
          /\ pStatus # "running"
          /\ prog = "app" => thread_ret = Some(PyNone)
          /\ (prog = "eval" /\ carried = None) =>
                /\ return_dict.result.correctness = "no"
                /\ return_dict.result.answer = Some(Normalise("rawWrong"))
          /\ (prog = "eval" /\ carried # None) =>
                /\ carried[1].correctness = "no"
                /\ carried[1].answer = Some(Normalise("rawWrong"))
                /\ carried[1].step_lst # << >>
                /\ fbStarts = 1

\* the first iteration of two produced an answer the verifier rejected: the
\* second iteration never ran, and the fallback followed
C16_Witness ==
    /\ prog = "eval"
    /\ "beam_rejected" \in events
    /\ "direct_rejected" \notin events
    /\ max_step = 2
    /\ scorerCalls = 1
    /\ opc = "done"

\* C17: the candidates of an iteration are applied in selection order; the
\* step that finds a clone with an answer after a state-changing application
\* makes beam_search return that clone's answer, reasoning record and
\* equation count, no clone applied before it had an answer, and from then
\* on nothing is applied, the Scorer is not queried and no iteration runs.
EarlyExitStep ==
    (PrimaryAt("bs_apply") /\ spc' = "bs_done") =>
        LET c == top_cand_hyp_pos[cand]
            parent == hypotheses[hyp_theorem[c].hyp]
        IN /\ Len(new_hypotheses) <= cand - 1
           /\ \A j \in DOMAIN new_hypotheses : new_hypotheses[j].answer = None
           /\ \E o \in {"updated", "answerRight", "answerWrong"} :
                 LET clone == solve_with_one_model(parent, hyp_theorem[c].theorem, o)
                 IN /\ clone.is_updated
                    /\ clone.answer # None
                    /\ beam_search_res' =
                          [answer |-> clone.answer,
                           step_lst |-> clone.reasoning_record,
                           model_instance_eq_num |-> Some(clone.model_instance_eq_num)]
           /\ scorerCalls' = scorerCalls

AfterReturnStep ==
    spc = "bs_done" =>
        /\ scorerCalls' = scorerCalls
        /\ spc' \in {"bs_done", "none"}
        /\ spc' = "bs_done" => beam_search_res' = beam_search_res

C18_FailedCandidateDropped ==
    /\ "failed_candidate_used" \notin events
    /\ \A j \in DOMAIN new_hypotheses : new_hypotheses[j].is_updated
    /\ \A k \in DOMAIN hypotheses : hyp_steps[k] # << >> => hypotheses[k].is_updated
    /\ spc = "bs_apply" =>
          /\ cand \in 1..(Len(top_cand_hyp_pos) + 1)
          /\ Len(new_hypotheses) <= cand - 1
          /\ \A i, j \in DOMAIN top_cand_hyp_pos :
                i # j => top_cand_hyp_pos[i] # top_cand_hyp_pos[j]
          /\ \A j \in DOMAIN new_hyp_steps :
                \E i \in 1..(cand - 1) : new_hyp_steps[j] = conti_hyp_steps[top_cand_hyp_pos[i]]
    /\ ("dropped" \in events /\ ~PrimaryRaised /\ pStatus = "running") => InBeamSearch

\* second iteration: a candidate was dropped earlier, and of the two
\* candidates of this iteration the first was dropped and the second applied
\* and kept
C18_Witness ==
    /\ "dropped" \in events
    /\ spc = "bs_apply"
    /\ t = 2
    /\ Len(top_cand_hyp_pos) = 2
    /\ cand = 3
    /\ Len(new_hypotheses) = 1
    /\ new_hyp_steps[1] = conti_hyp_steps[top_cand_hyp_pos[2]]

\* C19: pruning is over the whole pool.  When the survivors are applied,
\* their number is min(beam_size, size of the pool), they are distinct
\* positions of the pool, and no position left out has a higher score (as the
\* tensor holds it) than a selected one, whichever hypothesis produced it.
Selected == { top_cand_hyp_pos[i] : i \in DOMAIN top_cand_hyp_pos }

C19_GlobalPruning ==
    spc = "bs_apply" =>
        /\ Len(conti_hyp_scores) = Len(hyp_theorem)
        /\ Len(top_cand_hyp_pos) = Min(beam_size, Len(hyp_theorem))
        /\ Selected \subseteq DOMAIN hyp_theorem
        /\ Cardinality(Selected) = Len(top_cand_hyp_pos)
        /\ \A m \in DOMAIN hyp_theorem \ Selected :
              \A c \in Selected : conti_hyp_scores[m] <= conti_hyp_scores[c]

\* two hypotheses produced a pool of more than beam_size candidates; both
\* survivors come from the second one and the first contributes none,
\* though it had a candidate in the pool
C19_Witness ==
    /\ spc = "bs_apply"
    /\ Len(hypotheses) = 2
    /\ Len(hyp_theorem) > beam_size
    /\ \A c \in Selected : hyp_theorem[c].hyp = 2
    /\ Cardinality(Selected) = 2
    /\ \E m \in DOMAIN hyp_theorem : hyp_theorem[m].hyp = 1

\* C20: pool positions are in generation order (parent index first, then
\* the rank the Scorer gave).  Among candidates of equal score an earlier
\* position is selected in preference to a later one, and survivors of
\* equal score are applied in the order of their positions.
C20_StableTieBreaking ==
    spc = "bs_apply" =>
        /\ \A c \in Selected : \A m \in DOMAIN hyp_theorem \ Selected :
              conti_hyp_scores[m] = conti_hyp_scores[c] => c < m
        /\ \A i, j \in DOMAIN top_cand_hyp_pos :
              (i < j /\ conti_hyp_scores[top_cand_hyp_pos[i]] =
                           conti_hyp_scores[top_cand_hyp_pos[j]])
              => top_cand_hyp_pos[i] < top_cand_hyp_pos[j]

\* the active set has become empty: an iteration has rebuilt the frontier
\* from no survivor
ActiveSetEmpty == BeamSearchRuns /\ t > 0 /\ hypotheses = << >>

\* while beam_search runs it has begun at most max_step iterations; it
\* leaves by an exception only when theorem_pred raised; and when it returns
\* and no applied clone has carried an answer, the result is the empty one
BeamSearchBounded ==
    /\ BeamSearchRuns => t <= max_step
    /\ BeamSearchRuns => scorerCalls <= t * beam_size
    /\ (spc = "none") => "scorer_raised" \in events
    /\ (spc = "bs_done" /\ "clone_answer" \notin events) =>
          /\ beam_search_res.answer = None
          /\ beam_search_res.step_lst = << >>
          /\ beam_search_res.model_instance_eq_num = None

\* once the frontier is empty it stays empty and the Scorer is not queried
EmptyStaysSilent ==
    ActiveSetEmpty =>
        /\ scorerCalls' = scorerCalls
        /\ "scorer_raised" \notin events'
        /\ hypotheses' = << >>

\* C21: beam_search always terminates after at most max_step iterations
\* (every Scorer and apply call coming back), and when no applied clone ever
\* carries an answer, also when the active set becomes empty before max_step
\* is reached, after which the Scorer is never queried again, it returns the
\* empty result (no answer, empty step list, no equation count) without
\* raising.
C21_BeamSearchTerminates ==
    /\ []BeamSearchBounded
    /\ [][EmptyStaysSilent]_vars
    /\ <>(~BeamSearchRuns /\ (spc = "bs_done" \/ "scorer_raised" \in events))

\* beam_search has returned the empty result after fewer Scorer calls than
\* max_step: at least one iteration ran on an empty active set
C21_Witness ==
    /\ spc = "bs_done"
    /\ "clone_answer" \notin events
    /\ beam_search_res = [answer |-> None, step_lst |-> << >>,
                          model_instance_eq_num |-> None]
    /\ scorerCalls >= 1
    /\ scorerCalls < max_step

\* a process that has been started and has not ended
Alive(status) == status \in {"running", "stored"}

\* the orchestrator has read the result slot after the primary (eval.py 230)
SlotRead == carried # None

\* the primary and the fallback are never alive together, and the slot is
\* read and the fallback started only when the primary has ended
NeverTogether ==
    /\ ~(Alive(pStatus) /\ Alive(fStatus))
    /\ (SlotRead \/ fbStarts > 0 \/ fStatus # "none") => pStatus \in {"exited", "terminated"}
    /\ ("p_timeout" \in events) => pStatus = "terminated"

\* after the read or the start of the fallback the primary makes no step,
\* and the slot is written by the running fallback only
NoLatePrimaryWrite ==
    (SlotRead \/ fbStarts > 0) =>
        /\ pStatus' = pStatus
        /\ spc' = spc
        /\ (return_dict' # return_dict => fStatus = "running" /\ fStatus' = "stored")

\* C22: the primary and the fallback never run at the same time: the fallback
\* process is started only after the primary process has exited by itself or
\* has been terminated and joined, so return_dict['result'] is never written
\* by the primary after the orchestrator has read it or after the fallback
\* has started.
C22_NoOverlap == []NeverTogether /\ [][NoLatePrimaryWrite]_vars

\* the fallback has stored its record after the primary was cut off in the
\* middle of solve
C22_Witness ==
    /\ prog = "eval"
    /\ fStatus = "stored"
    /\ pStatus = "terminated"
    /\ "p_unfinished" \in events
    /\ return_dict # << >>

\* solve has returned: what it returned, as solve_process stored it
\* (eval.py) or as the thread of func_timeout returned it (app.py), and
\* before anything else is stored
SolveReturned ==
    /\ pStatus = "stored"
    /\ IF prog = "eval" THEN ~PrimaryRaised ELSE "raised" \notin DOMAIN thread_ret[1]

SolveRecord == IF prog = "eval" THEN return_dict.result ELSE thread_ret[1]

\* the Answer Verifier accepted the answer solve ended with: the initial
\* hypothesis's in the direct check, or the one beam_search returned
VerifierAccepted ==
    \/ "direct_yes" \in events
    \/ "beam_answer" \in events /\ "beam_rejected" \notin events

\* C23: solve produces a record with correctness = yes only if the Answer
\* Verifier accepted the answer stored in that record (the initial
\* hypothesis's answer or the beam-search answer); whenever the verifier
\* rejected the answer or no answer was found, the record's correctness is no.
C23_YesOnlyIfVerified ==
    SolveReturned =>
        /\ (WellFormed(SolveRecord) /\ SolveRecord.correctness = "yes") =>
              /\ VerifierAccepted
              /\ SolveRecord.answer = Some(Normalise("rawRight"))
        /\ ~VerifierAccepted =>
              /\ WellFormed(SolveRecord)
              /\ SolveRecord.correctness = "no"

====
